---------------------------- MODULE Spec2Model ----------------------------
(***************************************************************************)
(* Athena credit scoring: the model registry and its champion/challenger   *)
(* promotion (mlops/mlflow_client.py), the gradient-boosted scorer cache   *)
(* (scoring/lgbm_scorer.py), the hybrid scoring pipeline                   *)
(* (scoring/*.py, llm/client.py) and the persistence of score events       *)
(* (api/credit_reports.py, mcp_server.py, feedback/loop.py).               *)
(*                                                                         *)
(* Part 1 (specification Spec): the registry of the registered model       *)
(* REGISTERED_MODEL.  MLflow keeps aliases as a map alias -> version, so   *)
(* the state is that map, the set of versions tagged retired and the       *)
(* number of registered versions; scorer_alias is the same map of the      *)
(* registered model MODEL_NAME, which seed_mlflow.py fills and the scorer  *)
(* loads from.  One governance workflow runs                               *)
(* promote_challenger_to_champion, one registry call per step; other       *)
(* clients set aliases and read the champion between its steps.            *)
(***************************************************************************)
EXTENDS Integers, Sequences, FiniteSets, TLC

VARIABLES
    nversions,      \* versions 1..nversions are registered (register_model)
    alias,          \* [Aliases -> version or NoVersion]: the registry's alias map
    retired,        \* versions carrying the tag retired = "true"
    pc,             \* where promote_challenger_to_champion stands
    challenger_mv,  \* its local challenger_mv.version
    champion_mv,    \* its local champion_mv.version
    promote_ret,    \* its return value, meaningful when pc = "returned"
    champion_read,  \* what the last get_champion_version returned
    scorer_alias,   \* the alias map of the registered model MODEL_NAME
    scorer_model,   \* LGBMScorer.model of the cached champion scorer
    predict_ret,    \* result of the last predict_pd
    run_metrics,    \* [version -> metrics logged by the run that produced it]
    cmp_ret,        \* what the last compare_champion_challenger returned
    transactions,   \* compute_hybrid_score: its argument transactions
    crb_raw_report, \* its argument crb_raw_report
    provider,       \* whether the language-model provider answers calls
    score_pc,       \* where compute_hybrid_score stands
    locals,         \* its base_result, crb_metrics and crb_contribution
    llm_ret,        \* the provider's answer and what get_score_adjustment returned
    hybrid,         \* the HybridScoreResult returned
    today,          \* date.today(), in days after the day the ages are counted from
    customers,      \* table customers: national ids, customer_id = position
    crb_reports,    \* table crb_reports, report_id = position
    credit_score_events,    \* table credit_score_events, event_id = position
    base_score_breakdowns,  \* table base_score_breakdowns
    psi_monitoring, \* table psi_monitoring, in insertion order
    data_quality_log,   \* table data_quality_log, in insertion order
    feedback_runs,  \* the invocations of run_feedback_loop: position and locals
    outcomes,       \* what run_feedback_loop's queries find in the database
    shap_logs,      \* table shap_logs, one row per (model_version, analysis_date)
    shap_result,    \* what the last analyse_recent_defaults returned
    defaults,       \* what its query and _compute_shap find
    requests,       \* the scoring requests: route, position, locals, response
    intermediates,  \* the intermediate scores handed to _score_to_pd, in hundredths
    pd_inputs,      \* PDOTransformer: the PDs handed to transform
    pdo_results,    \* the PDOResult returned for each of them
    recovered_pds   \* what pd_from_score returned for each result's score

regvars == <<nversions, alias, retired, pc, challenger_mv, champion_mv,
             promote_ret, champion_read, scorer_alias, scorer_model, predict_ret>>

cmpvars == <<run_metrics, cmp_ret>>

scorevars == <<transactions, crb_raw_report, provider, score_pc, locals, llm_ret,
               hybrid, today>>

(* what the registry's operations leave alone *)
fbvars == <<psi_monitoring, data_quality_log, feedback_runs, outcomes>>

shapvars == <<shap_logs, shap_result, defaults>>

dbvars == <<customers, crb_reports, credit_score_events, base_score_breakdowns,
            fbvars, shapvars, requests>>

pdovars == <<intermediates, pd_inputs, pdo_results, recovered_pds>>

nonregvars == <<cmpvars, scorevars, dbvars, pdovars>>

vars == <<regvars, nonregvars>>

(* bounds *)
MaxVersion == 2

(* Optional[str] None: an alias that maps to no version, a None return *)
NoVersion == 0

(* mlflow_client.py REGISTERED_MODEL, and lgbm_scorer.py MODEL_NAME with
   MLFLOW_MODEL_NAME unset *)
REGISTERED_MODEL == "athena_lgbm_scorer"
MODEL_NAME == "AthenaScorer"

ALIAS_CHAMPION == "champion"
ALIAS_CHALLENGER == "challenger"
ALIAS_STAGING == "staging"
Aliases == {ALIAS_STAGING, ALIAS_CHALLENGER, ALIAS_CHAMPION}

Versions == 1..MaxVersion
Registered == 1..nversions

(* client.set_registered_model_alias(REGISTERED_MODEL, a, v) *)
set_registered_model_alias(al, a, v) == [al EXCEPT ![a] = v]

(* client.delete_registered_model_alias(REGISTERED_MODEL, a) *)
delete_registered_model_alias(al, a) == [al EXCEPT ![a] = NoVersion]

PromotionSteps == {"get_champion", "delete_champion", "tag_retired",
                   "set_champion", "delete_challenger"}

----------------------------------------------------------------------------
(* register_model: MLflow gives the new version the next version number *)
register_model ==
    /\ nversions < MaxVersion
    /\ nversions' = nversions + 1
    /\ UNCHANGED <<nonregvars, scorer_alias, alias, retired, pc,
                   challenger_mv, champion_mv, promote_ret, champion_read,
                   scorer_model, predict_ret>>

(* seed_mlflow.py lines 120-138 on a tracking server that was never seeded:
   two versions of "AthenaScorer" are registered, the first is made its
   champion and the second its challenger *)
seed_mlflow ==
    /\ scorer_alias = [a \in Aliases |-> NoVersion]
    /\ scorer_alias' = [scorer_alias EXCEPT ![ALIAS_CHAMPION] = 1,
                                            ![ALIAS_CHALLENGER] = 2]
    /\ UNCHANGED <<nonregvars, nversions, alias, retired, pc, challenger_mv, champion_mv,
                   promote_ret, champion_read, scorer_model, predict_ret>>

promote_to_staging(v) ==
    /\ alias' = set_registered_model_alias(alias, ALIAS_STAGING, v)
    /\ UNCHANGED <<nonregvars, scorer_alias, nversions, retired, pc,
                   challenger_mv, champion_mv, promote_ret, champion_read,
                   scorer_model, predict_ret>>

promote_to_challenger(v) ==
    /\ alias' = set_registered_model_alias(alias, ALIAS_CHALLENGER, v)
    /\ UNCHANGED <<nonregvars, scorer_alias, nversions, retired, pc,
                   challenger_mv, champion_mv, promote_ret, champion_read,
                   scorer_model, predict_ret>>

(* the except branch of promote_challenger_to_champion: return None *)
PromotionFailed ==
    /\ pc' = "returned"
    /\ promote_ret' = NoVersion

(* Mutant: a missing challenger is not noticed and the promotion goes on. *)
Promote_get_challenger_unchecked ==
    /\ pc \in {"idle", "returned"}
    /\ challenger_mv' = alias[ALIAS_CHALLENGER]
    /\ champion_mv' = NoVersion
    /\ pc' = "get_champion"
    /\ promote_ret' = NoVersion
    /\ UNCHANGED <<nonregvars, scorer_alias, nversions, alias, retired,
                   champion_read, scorer_model, predict_ret>>

(* lines 99-101: the call, and get_model_version_by_alias(challenger),
   which raises MlflowException when the alias maps to no version *)
Promote_get_challenger ==
    /\ pc \in {"idle", "returned"}
    /\ challenger_mv' = alias[ALIAS_CHALLENGER]
    /\ champion_mv' = NoVersion
    /\ IF alias[ALIAS_CHALLENGER] = NoVersion
         THEN PromotionFailed
         ELSE pc' = "get_champion" /\ promote_ret' = NoVersion
    /\ UNCHANGED <<nonregvars, scorer_alias, nversions, alias, retired,
                   champion_read, scorer_model, predict_ret>>

(* line 102: get_model_version_by_alias(champion) *)
Promote_get_champion ==
    /\ pc = "get_champion"
    /\ champion_mv' = alias[ALIAS_CHAMPION]
    /\ IF alias[ALIAS_CHAMPION] = NoVersion
         THEN PromotionFailed
         ELSE pc' = "delete_champion" /\ promote_ret' = NoVersion
    /\ UNCHANGED <<nonregvars, scorer_alias, nversions, alias, retired,
                   challenger_mv, champion_read, scorer_model, predict_ret>>

(* line 110 *)
Promote_delete_champion_alias ==
    /\ pc = "delete_champion"
    /\ alias' = delete_registered_model_alias(alias, ALIAS_CHAMPION)
    /\ pc' = "tag_retired"
    /\ UNCHANGED <<nonregvars, scorer_alias, nversions, retired,
                   challenger_mv, champion_mv, promote_ret, champion_read,
                   scorer_model, predict_ret>>

(* line 111: set_model_version_tag(champion_mv.version, "retired", "true") *)
Promote_tag_retired ==
    /\ pc = "tag_retired"
    /\ retired' = retired \cup {champion_mv}
    /\ pc' = "set_champion"
    /\ UNCHANGED <<nonregvars, scorer_alias, nversions, alias, challenger_mv,
                   champion_mv, promote_ret, champion_read, scorer_model,
                   predict_ret>>

(* Mutant: the champion alias is handed back to the old champion. *)
Promote_set_champion_alias_old ==
    /\ pc = "set_champion"
    /\ alias' = set_registered_model_alias(alias, ALIAS_CHAMPION, champion_mv)
    /\ pc' = "delete_challenger"
    /\ UNCHANGED <<nonregvars, scorer_alias, nversions, retired,
                   challenger_mv, champion_mv, promote_ret, champion_read,
                   scorer_model, predict_ret>>

(* line 114 *)
Promote_set_champion_alias ==
    /\ pc = "set_champion"
    /\ alias' = set_registered_model_alias(alias, ALIAS_CHAMPION, challenger_mv)
    /\ pc' = "delete_challenger"
    /\ UNCHANGED <<nonregvars, scorer_alias, nversions, retired,
                   challenger_mv, champion_mv, promote_ret, champion_read,
                   scorer_model, predict_ret>>

(* lines 115-117: delete the challenger alias and return the new champion *)
Promote_delete_challenger_alias ==
    /\ pc = "delete_challenger"
    /\ alias' = delete_registered_model_alias(alias, ALIAS_CHALLENGER)
    /\ pc' = "returned"
    /\ promote_ret' = challenger_mv
    /\ UNCHANGED <<nonregvars, scorer_alias, nversions, retired,
                   challenger_mv, champion_mv, champion_read, scorer_model,
                   predict_ret>>

(* lines 118-120: any registry call of lines 102-115 may raise
   MlflowException (registry unreachable); the promotion then returns None
   and undoes nothing *)
Promote_raises ==
    /\ pc \in PromotionSteps
    /\ PromotionFailed
    /\ UNCHANGED <<nonregvars, scorer_alias, nversions, alias, retired,
                   challenger_mv, champion_mv, champion_read, scorer_model,
                   predict_ret>>

(* get_champion_version, the lookup answered by the registry *)
get_champion_version ==
    /\ champion_read' = alias[ALIAS_CHAMPION]
    /\ UNCHANGED <<nonregvars, scorer_alias, nversions, alias, retired, pc,
                   challenger_mv, champion_mv, promote_ret, scorer_model,
                   predict_ret>>

----------------------------------------------------------------------------
(***************************************************************************)
(* scoring/lgbm_scorer.py: the cached champion scorer.                     *)
(***************************************************************************)
(* _champion_scorer is None: no LGBMScorer has been constructed yet *)
Unbuilt == -1

(* what predict_proba may do: raise, or give the class-1 probability
   (in millionths) *)
InferencePDs == {20000, 500000, 970000}
Inferences == [throws : {TRUE}, pd : {0}] \cup [throws : {FALSE}, pd : InferencePDs]

(* _load_model: mlflow.lightgbm.load_model of models:/{MODEL_NAME}@champion,
   al being the alias map of MODEL_NAME; any exception (alias not found,
   artifact not loadable) leaves model = None *)
load_model(al, load_ok) ==
    IF load_ok /\ al[ALIAS_CHAMPION] # NoVersion THEN al[ALIAS_CHAMPION] ELSE NoVersion

(* predict_pd returning None *)
Unavailable == [raised |-> FALSE, none |-> TRUE, pd |-> 0]

(* Mutant: the inference is not wrapped in try/except. *)
predict_pd_uncaught(model, inf) ==
    IF model = NoVersion THEN Unavailable
    ELSE IF inf.throws THEN [raised |-> TRUE, none |-> FALSE, pd |-> 0]
    ELSE [raised |-> FALSE, none |-> FALSE, pd |-> inf.pd]

(* LGBMScorer.predict_pd: what the call gives back, or that it raised *)
predict_pd(model, inf) ==
    IF model = NoVersion THEN Unavailable
    ELSE IF inf.throws THEN Unavailable
    ELSE [raised |-> FALSE, none |-> FALSE, pd |-> inf.pd]

NoPrediction == [called |-> FALSE, model |-> NoVersion,
                 inf |-> [throws |-> FALSE, pd |-> 0], out |-> Unavailable]

(* get_lgbm_scorer("champion") when nothing is cached: LGBMScorer.__init__ *)
get_lgbm_scorer ==
    /\ scorer_model = Unbuilt
    /\ \E load_ok \in BOOLEAN : scorer_model' = load_model(scorer_alias, load_ok)
    /\ UNCHANGED <<nonregvars, scorer_alias, nversions, alias, retired, pc,
                   challenger_mv, champion_mv, promote_ret, champion_read,
                   predict_ret>>

(* LGBMScorer.reload *)
reload ==
    /\ scorer_model # Unbuilt
    /\ \E load_ok \in BOOLEAN : scorer_model' = load_model(scorer_alias, load_ok)
    /\ UNCHANGED <<nonregvars, scorer_alias, nversions, alias, retired, pc,
                   challenger_mv, champion_mv, promote_ret, champion_read,
                   predict_ret>>

(* get_lgbm_scorer("champion").predict_pd(features) on the cached scorer *)
scorer_predict_pd ==
    /\ scorer_model # Unbuilt
    /\ \E inf \in Inferences :
         predict_ret' = [called |-> TRUE, model |-> scorer_model, inf |-> inf,
                         out |-> predict_pd(scorer_model, inf)]
    /\ UNCHANGED <<nonregvars, scorer_alias, nversions, alias, retired, pc,
                   challenger_mv, champion_mv, promote_ret, champion_read,
                   scorer_model>>

(***************************************************************************)
(* Part 2 (specification SpecCompare): compare_champion_challenger.        *)
(* Metrics are counted in thousandths (0.02 is 20), so the differences     *)
(* the code takes in floating point are exact here.                        *)
(***************************************************************************)
(* a metric the run did not log: dict.get falls back to its default *)
Missing == -999999
KsValues == {Missing, 0, 290, 300, 320}
AucValues == {Missing, 790, 800, 805}
(* run.data.metrics: train_and_register (trainer.py:90-95) logs the AUC of a
   run as "auc_roc"; "roc_auc" is there when a caller of log_metrics
   (lines 55-56) logged it under that name *)
RunMetrics ==
    [ks_statistic : {290, 320}, auc_roc : {790, 800}, roc_auc : {Missing}]
      \cup [ks_statistic : KsValues, auc_roc : {Missing}, roc_auc : AucValues]
EmptyMetrics == [ks_statistic |-> Missing, auc_roc |-> Missing, roc_auc |-> Missing]

(* metrics.get(key, -1), line 159-162 *)
metric_get(metrics, key) == IF metrics[key] = Missing THEN -1000 ELSE metrics[key]

(* _get_metrics(alias), lines 148-154: (None, {}) on any exception, which a
   missing alias and a failed lookup both raise *)
get_metrics(al, metrics, a, lookup_ok) ==
    IF al[a] = NoVersion \/ ~lookup_ok
      THEN [version |-> NoVersion, metrics |-> EmptyMetrics]
      ELSE [version |-> al[a], metrics |-> metrics[al[a]]]

(* Mutant: the rollback branch is tested before the promote branch. *)
recommendation_rollback_first(ks_improvement, auc_improvement) ==
    IF ks_improvement <= -30 \/ auc_improvement <= -10 THEN "rollback_challenger"
    ELSE IF ks_improvement >= 20 \/ auc_improvement >= 5 THEN "promote_challenger"
    ELSE "keep_champion"

(* lines 167-171 *)
recommendation(ks_improvement, auc_improvement) ==
    IF ks_improvement >= 20 \/ auc_improvement >= 5 THEN "promote_challenger"
    ELSE IF ks_improvement <= -30 \/ auc_improvement <= -10 THEN "rollback_challenger"
    ELSE "keep_champion"

(* lines 156-179: the dict compare_champion_challenger returns *)
comparison(al, metrics, champ_ok, chall_ok) ==
    LET champ == get_metrics(al, metrics, ALIAS_CHAMPION, champ_ok)
        chall == get_metrics(al, metrics, ALIAS_CHALLENGER, chall_ok)
        champ_ks == metric_get(champ.metrics, "ks_statistic")
        chall_ks == metric_get(chall.metrics, "ks_statistic")
        champ_auc == metric_get(champ.metrics, "roc_auc")
        chall_auc == metric_get(chall.metrics, "roc_auc")
        ks_improvement == IF champ_ks > 0 THEN chall_ks - champ_ks ELSE 0
        auc_improvement == IF champ_auc > 0 THEN chall_auc - champ_auc ELSE 0
    IN  [called |-> TRUE,
         champion |-> [version |-> champ.version, ks |-> champ_ks, auc |-> champ_auc],
         challenger |-> [version |-> chall.version, ks |-> chall_ks, auc |-> chall_auc],
         ks_improvement |-> ks_improvement,
         auc_improvement |-> auc_improvement,
         recommendation |-> recommendation(ks_improvement, auc_improvement)]

NoComparison ==
    [called |-> FALSE,
     champion |-> [version |-> NoVersion, ks |-> 0, auc |-> 0],
     challenger |-> [version |-> NoVersion, ks |-> 0, auc |-> 0],
     ks_improvement |-> 0, auc_improvement |-> 0, recommendation |-> "keep_champion"]

compare_champion_challenger ==
    /\ \E champ_ok \in BOOLEAN, chall_ok \in BOOLEAN :
          cmp_ret' = comparison(alias, run_metrics, champ_ok, chall_ok)
    /\ UNCHANGED <<regvars, pdovars, run_metrics, scorevars, dbvars>>

(***************************************************************************)
(* Part 3: arithmetic.  The scoring code computes in double precision;     *)
(* here a real x is the integer nearest to x * 10^6 and every intermediate *)
(* value stays below 2^31.  Exp6, Ln6 and the quotients are accurate to    *)
(* about 10^-6, so a PD is within one millionth of the code's and a score  *)
(* can differ by one point where the code's value lies within 10^-4 of a   *)
(* rounding boundary.                                                      *)
(***************************************************************************)
Micro == 1000000

(* math.log(2) * 10^6 *)
LN2 == 693147

Max(a, b) == IF a >= b THEN a ELSE b
Min(a, b) == IF a <= b THEN a ELSE b
Abs(a) == IF a >= 0 THEN a ELSE -a

(* LET x == v IN F(x), the value v being computed once *)
With(v, F(_)) == CHOOSE y \in {F(x) : x \in {v}} : TRUE

(* round(a / b) for b > 0 *)
RoundDiv(a, b) == (2 * a + b) \div (2 * b)

(* round(a / 10^6) *)
RoundMicro(a) == (a + Micro \div 2) \div Micro

(* a * b / 10^6 for a, b >= 0 *)
FMul(a, b) ==
    LET ah == a \div 1000
        al == a % 1000
        bh == b \div 1000
        bl == b % 1000
    IN  ah * bh + (ah * bl + al * bh) \div 1000 + (al * bl) \div Micro

(* 10^k *)
RECURSIVE Pow10(_)
Pow10(k) == IF k = 0 THEN 1 ELSE 10 * Pow10(k - 1)

RECURSIVE Pow2(_)
Pow2(k) == IF k = 0 THEN 1 ELSE 2 * Pow2(k - 1)

(* floor(r * 10^k / d) for 0 <= r < d, one decimal digit at a time *)
RECURSIVE DivDigits(_, _, _)
DivDigits(r, d, k) ==
    IF k = 0 THEN 0
    ELSE With(r * 10, LAMBDA r10 :
           (r10 \div d) * Pow10(k - 1) + With(r10 % d, LAMBDA r1 : DivDigits(r1, d, k - 1)))

(* floor(n * 10^k / d) for n >= 0, d > 0 *)
DivScale(n, d, k) == (n \div d) * Pow10(k) + DivDigits(n % d, d, k)

(* the terms r^k / k!, k = k0 .. kmax, of the exponential series *)
RECURSIVE ExpSeries(_, _, _, _)
ExpSeries(r, term, k, kmax) ==
    IF k > kmax THEN 0
    ELSE With(FMul(term, r) \div k, LAMBDA t : t + ExpSeries(r, t, k + 1, kmax))

(* math.exp(x) for x >= 0: exp(x) = 2^n * exp(r), x = n ln 2 + r *)
Exp6(x) ==
    With(x % LN2, LAMBDA r : (Micro + ExpSeries(r, Micro, 1, 12)) * Pow2(x \div LN2))

(* round(1 / (1 + exp(x)), 6) for x >= 0 *)
Inv1pExp(x) ==
    With(Micro + Exp6(x), LAMBDA d : (DivScale(Micro, d, 7) + 5) \div 10)

RECURSIVE Log2Floor(_)
Log2Floor(n) == IF n < 2 THEN 0 ELSE 1 + Log2Floor(n \div 2)

(* the terms z^k / k, k = k0, k0+2 .. kmax, of the series of atanh *)
RECURSIVE LnSeries(_, _, _, _)
LnSeries(z2, t, k, kmax) ==
    IF k > kmax THEN 0
    ELSE With(FMul(t, z2), LAMBDA t2 : t2 \div k + LnSeries(z2, t2, k + 2, kmax))

(* math.log(n) for an integer n >= 1:
   n = 2^e * m, ln m = 2 atanh((m - 1) / (m + 1)) *)
Ln6(n) ==
    With(Log2Floor(n), LAMBDA e :
      With(DivDigits(n - Pow2(e), n + Pow2(e), 6), LAMBDA z :
        With(FMul(z, z), LAMBDA z2 : e * LN2 + 2 * (z + LnSeries(z2, z, 3, 15)))))

(***************************************************************************)
(* Part 4: the scoring functions.  Scores with two decimals (base_total,   *)
(* crb_contribution, the intermediate score) are counted in hundredths,    *)
(* probabilities in millionths, money in KES.                              *)
(***************************************************************************)
(* scoring/pdo_transformer.py *)
PDO == 50
BASE_SCORE == 500

(* self.factor = pdo / math.log(2), times 10^6 *)
Factor6 == DivScale(PDO * Micro, LN2, 6)

(* self.offset = base_score - factor * math.log(base_odds), base_odds = 1.0 *)
Offset6 == BASE_SCORE * Micro

(* _BANDS and _get_band: first floor reached, top-down *)
Bands == <<[floor |-> 780, label |-> "Excellent"],
           [floor |-> 720, label |-> "Very Good"],
           [floor |-> 680, label |-> "Good"],
           [floor |-> 640, label |-> "Fair"],
           [floor |-> 600, label |-> "Marginal"],
           [floor |-> 0, label |-> "Poor"]>>

RECURSIVE BandFrom(_, _)
BandFrom(score, i) ==
    IF i > Len(Bands) THEN "Poor"
    ELSE IF score >= Bands[i].floor THEN Bands[i].label
    ELSE BandFrom(score, i + 1)

(* Mutant: the floors are walked bottom-up. *)
get_band_bottom_up(score) ==
    LET reached == {i \in 1..Len(Bands) : score >= Bands[i].floor}
    IN  IF reached = {} THEN "Poor"
        ELSE Bands[CHOOSE i \in reached : \A j \in reached : j <= i].label

get_band(score) == BandFrom(score, 1)

(* Mutant: the logarithm of the PD in place of that of the odds. *)
LnOdds6_of_pd(pd) == Ln6(pd) - Ln6(Micro)

(* math.log(odds), odds = pd / (1 - pd), for a PD in millionths *)
LnOdds6(pd) == Ln6(pd) - Ln6(Micro - pd)

(* raw_score = offset - factor * math.log(odds), times 10^6 *)
RawScore6(pd_clamped) ==
    With(LnOdds6(pd_clamped), LAMBDA lo :
      IF lo >= 0 THEN Offset6 - FMul(Factor6, lo) ELSE Offset6 + FMul(Factor6, -lo))

(* PDOTransformer.transform: pd_probability, score and band of PDOResult *)
transform(pd_probability) ==
    With(Max(100, Min(999900, pd_probability)), LAMBDA pd_clamped :
      With(RawScore6(pd_clamped), LAMBDA raw_score :
        With(Max(300, Min(850, RoundMicro(raw_score))), LAMBDA score :
          [pd_probability |-> pd_probability, score |-> score, band |-> get_band(score)])))

(* Mutant: the inverse with its two sides exchanged. *)
pd_from_score_mirrored(score) ==
    With(DivScale(Abs(Offset6 - score * Micro), Factor6, 6), LAMBDA x :
      IF Offset6 >= score * Micro THEN Inv1pExp(x) ELSE Micro - Inv1pExp(x))

(* PDOTransformer.pd_from_score for 300 <= score <= 850:
   odds = exp((offset - score) / factor), pd = odds / (1 + odds) *)
pd_from_score(score) ==
    With(DivScale(Abs(Offset6 - score * Micro), Factor6, 6), LAMBDA x :
      IF Offset6 >= score * Micro THEN Micro - Inv1pExp(x) ELSE Inv1pExp(x))

(* Mutant: the logistic with the sign of its slope exchanged. *)
score_to_pd_rising(score) ==
    With(120 * (score - 50000), LAMBDA x :
      IF x >= 0 THEN Micro - Inv1pExp(x) ELSE Inv1pExp(-x))

(* scoring/hybrid_scorer.py _score_to_pd, score in hundredths:
   round(1 / (1 + exp(0.012 * (score - 500))), 6) *)
score_to_pd(score) ==
    With(120 * (score - 50000), LAMBDA x :
      IF x >= 0 THEN Inv1pExp(x) ELSE Micro - Inv1pExp(-x))

(* the PD whose odds are twice those of pd: 2 pd / (1 + pd), in millionths *)
DoubleOdds(pd) == (DivScale(2 * pd, Micro + pd, 7) + 5) \div 10

(* the PDs given to the transformer, in millionths: an even grid over (0, 1),
   the ends of the PD clamp and beyond, and the PDs of the repository's tests *)
MaxPdPoints == 49
PdGrid ==
    {(k * Micro) \div (MaxPdPoints + 1) : k \in 1..MaxPdPoints}
       \cup {1, 50, 100, 1000, 7800, 50000, 250000, 333333, 666667, 800000,
             941000, 990000, 992000, 995000, 999900, 999999}

NoPdoResult == [pd_probability |-> 0, score |-> 0, band |-> "none"]
NoPd == -1

(* no PD transformed: the state of this part in the other specifications *)
PdoIdle ==
    /\ intermediates = <<>>
    /\ pd_inputs = <<>>
    /\ pdo_results = <<>>
    /\ recovered_pds = <<>>

(* result = t.transform(pd) for the i-th PD *)
Pdo_transform(i) ==
    /\ i \in 1..Len(pd_inputs)
    /\ pdo_results[i] = NoPdoResult
    /\ pdo_results' = [pdo_results EXCEPT ![i] = transform(pd_inputs[i])]
    /\ UNCHANGED <<regvars, cmpvars, scorevars, dbvars, intermediates, pd_inputs, recovered_pds>>

(* recovered_pd = t.pd_from_score(result.score) *)
Pdo_pd_from_score(i) ==
    /\ i \in 1..Len(pd_inputs)
    /\ pdo_results[i] # NoPdoResult
    /\ recovered_pds[i] = NoPd
    /\ recovered_pds' = [recovered_pds EXCEPT ![i] = pd_from_score(pdo_results[i].score)]
    /\ UNCHANGED <<regvars, cmpvars, scorevars, dbvars, intermediates, pd_inputs,
                   pdo_results>>

(* the intermediate scores calibrated, in hundredths: an even grid over the
   250..900 points that base_total (300..700), crb_contribution (0..150)
   and the adjustment (-50..50) add up to, and scores one hundredth and one
   point apart around the midpoint, the band floors and the lower end of
   the score clamp *)
MaxIntermediates == 30
IntermediateGrid ==
    {25000 + (k * 65000) \div MaxIntermediates : k \in 0..MaxIntermediates}
       \cup {26899, 26900, 27000, 49999, 50000, 50001, 50100, 61450, 61500,
             66100, 66150, 70000, 70700, 70750, 75350, 75400, 82250, 82300,
             89999}

(* hybrid_scorer.py lines 104-110: pd_probability = _score_to_pd(intermediate)
   and pdo_result = _pdo.transform(pd_probability), for the i-th score *)
Calibrate(i) ==
    /\ i \in 1..Len(intermediates)
    /\ pdo_results[i] = NoPdoResult
    /\ \E pd_probability \in {score_to_pd(intermediates[i])} :
          /\ pd_inputs' = [pd_inputs EXCEPT ![i] = pd_probability]
          /\ pdo_results' = [pdo_results EXCEPT ![i] = transform(pd_probability)]
    /\ UNCHANGED <<regvars, cmpvars, scorevars, dbvars, intermediates, recovered_pds>>

(***************************************************************************)
(* scoring/base_scorer.py.  A transaction is a record: days_ago is the age *)
(* of transaction_date on day 0 of the clock today (NoDate when the date   *)
(* is missing or not a date), month                                        *)
(* its "%Y-%m" key, amount in KES (the model's amounts are multiples of    *)
(* 1000 KES), has_balance whether balance_after is not None.               *)
(***************************************************************************)
NoDate == -1
ANALYSIS_PERIOD_DAYS == 180

RECURSIVE SeqSum(_)
SeqSum(q) == IF q = <<>> THEN 0 ELSE Head(q) + SeqSum(Tail(q))

(* the sum of f over S; one element x of S is taken at a time *)
RECURSIVE SumOver(_, _)
SumOver(f, S) ==
    IF S = {} THEN 0
    ELSE CHOOSE sum \in {f[x] + SumOver(f, S \ {x}) : x \in {CHOOSE y \in S : TRUE}} : TRUE

Amounts(txs) == [i \in 1..Len(txs) |-> txs[i].amount]

(* lines 35-39: cutoff = date.today() - timedelta(days=analysis_period_days);
   records without a valid date, or older than the cutoff, drop *)
tx_window(txs, period) ==
    SelectSeq(txs, LAMBDA t : t.days_ago # NoDate /\ t.days_ago + today <= period)

OfType(w, type) == SelectSeq(w, LAMBDA t : t.transaction_type = type)

(* monthly_credits / monthly_debits, lines 47-56 *)
MonthsOf(q) == {q[i].month : i \in 1..Len(q)}
Monthly(q) == [m \in MonthsOf(q) |-> SeqSum(Amounts(SelectSeq(q, LAMBDA t : t.month = m)))]

(* category_totals, line 57 *)
CategoriesOf(q) == {q[i].category : i \in 1..Len(q)}

(* income_cv < sqrt(num / den), lines 67-82: statistics.stdev over the
   monthly credit totals, divided by their mean; the test is taken squared
   and in thousands of KES (the ratio does not depend on the unit) *)
CvBelow(monthly, num, den) ==
    LET n == Cardinality(DOMAIN monthly)
        total == SumOver(monthly, DOMAIN monthly) \div 1000
        dev2 == SumOver([m \in DOMAIN monthly |->
                           (n * (monthly[m] \div 1000) - total)
                             * (n * (monthly[m] \div 1000) - total)],
                        DOMAIN monthly)
    IN  den * dev2 < num * total * total * (n - 1)

income_stability(monthly) ==
    LET n == Cardinality(DOMAIN monthly)
        total == SumOver(monthly, DOMAIN monthly)
        measured == n > 1 /\ total > 0      \* else income_cv = 1.0
    IN  IF measured /\ CvBelow(monthly, 1, 100) THEN 150
        ELSE IF measured /\ CvBelow(monthly, 1, 25) THEN 120
        ELSE IF measured /\ CvBelow(monthly, 49, 400) THEN 80
        ELSE IF measured /\ CvBelow(monthly, 1, 4) THEN 40
        ELSE 10

(* lines 85-90: balance_after < avg_income * 0.10, where avg_income is the
   mean monthly credit total, or 1.0 when that is not positive *)
is_low_balance(t, total_credits, n_months) ==
    /\ t.has_balance
    /\ IF total_credits > 0
         THEN t.balance_after * 10 * n_months < total_credits
         ELSE t.balance_after * 10 < 1

(* lines 93-102, avg_monthly_income = total_credits / n_months *)
income_level(total_credits, n_months) ==
    IF total_credits > 100000 * n_months THEN 150
    ELSE IF total_credits > 50000 * n_months THEN 120
    ELSE IF total_credits > 20000 * n_months THEN 80
    ELSE IF total_credits > 5000 * n_months THEN 40
    ELSE 10

(* lines 105-120, savings_rate = net_savings / total_credits, or 0 *)
savings_rate_points(total_credits, total_debits) ==
    LET net == total_credits - total_debits
        has_income == total_credits > 0
    IN  IF has_income /\ 100 * net > 30 * total_credits THEN 100
        ELSE IF has_income /\ 100 * net > 15 * total_credits THEN 75
        ELSE IF has_income /\ 100 * net > 5 * total_credits THEN 50
        ELSE IF has_income => net >= 0 THEN 25
        ELSE 0

(* lines 123-130 *)
low_balance_points(events) ==
    IF events = 0 THEN 150 ELSE IF events <= 1 THEN 100
    ELSE IF events <= 3 THEN 50 ELSE 10

(* lines 133-141 *)
diversity_points(unique_categories) ==
    IF unique_categories >= 6 THEN 150 ELSE IF unique_categories >= 4 THEN 100
    ELSE IF unique_categories >= 2 THEN 60 ELSE 20

(* lines 144-152 and 177: round(max(300, min(700, 300 + raw / 700 * 400)), 2),
   in hundredths *)
scale_base_total(raw_total) ==
    Max(30000, Min(70000, 30000 + RoundDiv(raw_total * 400, 7)))

(* calculate_base_score: the scores of BaseScoreResult *)
(* round(a / b) for b # 0 as Python rounds a float to one decimal: to the
   nearest; a half that is a multiple of 0.25 is an exact float and goes to
   the even neighbour (6.25 -> 6.2, 0.75 -> 0.8), any other half away from 0 *)
RoundRatio(a, b) ==
    LET n == IF (b < 0) = (a < 0) THEN Abs(a) ELSE -Abs(a)
        d == Abs(b)
        q == Abs(n) \div d
        m == IF 2 * (Abs(n) % d) = d /\ q % 5 = 2
                THEN (IF q % 2 = 0 THEN q ELSE q + 1)
                ELSE RoundDiv(Abs(n), d)
    IN  IF n >= 0 THEN m ELSE -m

(* lines 57 and 154-159: category_totals over the debits of the window;
   total_debit_amount = sum(category_totals.values()) or 1.0; the share of
   each category round(v / total_debit_amount * 100, 1), in tenths of a percent *)
category_breakdown(debits) ==
    LET category_totals ==
            [c \in CategoriesOf(debits) |->
                SeqSum(Amounts(SelectSeq(debits, LAMBDA t : t.category = c)))]
        total == SumOver(category_totals, DOMAIN category_totals)
        total_debit_amount == IF total # 0 THEN total ELSE 1
    IN  [c \in DOMAIN category_totals |->
            RoundRatio(1000 * category_totals[c], total_debit_amount)]

calculate_base_score(txs, period) ==
    LET w == tx_window(txs, period)
        credits == OfType(w, "CREDIT")
        debits == OfType(w, "DEBIT")
        monthly_credits == Monthly(credits)
        n_months == Max(1, Cardinality(DOMAIN monthly_credits))
        total_credits == SeqSum(Amounts(credits))
        total_debits == SeqSum(Amounts(debits))
        low_balance_events ==
            Len(SelectSeq(w, LAMBDA t : is_low_balance(t, total_credits, n_months)))
        s1 == income_stability(monthly_credits)
        s2 == income_level(total_credits, n_months)
        s3 == savings_rate_points(total_credits, total_debits)
        s4 == low_balance_points(low_balance_events)
        s5 == diversity_points(Cardinality(CategoriesOf(debits)))
    IN  [income_stability_score |-> s1,
         avg_monthly_income_score |-> s2,
         savings_rate_score |-> s3,
         low_balance_score |-> s4,
         transaction_diversity_score |-> s5,
         low_balance_events |-> low_balance_events,
         category_breakdown |-> category_breakdown(debits),
         base_total |-> scale_base_total(s1 + s2 + s3 + s4 + s5)]

(***************************************************************************)
(* scoring/crb_extractor.py.  A report is the creditReport object:         *)
(* bureauScore (0 when absent or null), the number of                      *)
(* nonPerformingAccounts and the statuses of                               *)
(* performingAccountsWithDefault; present = FALSE is no report at all.     *)
(***************************************************************************)
(* str(status).upper() on the statuses of the model *)
upper(status) ==
    CASE status = "active" -> "ACTIVE"
      [] status = "settled" -> "SETTLED"
      [] OTHER -> status

CountIn(statuses, S) == Len(SelectSeq(statuses, LAMBDA x : upper(x) \in S))

(* line 36, in hundredths: max(0, min(100, (bureau_score - 300) / 600 * 100)) *)
bureau_score_pts(bureau_score) ==
    Max(0, Min(10000, RoundDiv((bureau_score - 300) * 50, 3)))

(* lines 45-50 *)
npa_pts(npa_count) ==
    IF npa_count = 0 THEN 30 ELSE IF npa_count <= 2 THEN 10 ELSE -20

(* Mutant: settled defaults are looked at first. *)
default_pts_settled_first(active_defaults, settled_defaults) ==
    IF settled_defaults > 0 THEN 0
    ELSE IF active_defaults = 0 THEN 20
    ELSE -30

(* lines 63-68 *)
default_pts(active_defaults, settled_defaults) ==
    IF active_defaults = 0 /\ settled_defaults = 0 THEN 20
    ELSE IF active_defaults = 0 /\ settled_defaults > 0 THEN 0
    ELSE -30

(* lines 29 and 34-53: credit_report = raw_report.get("creditReport", {}) and
   the .get of each field with its default: a field that is absent reads as
   0 or as the empty list *)
credit_report_of(raw_report) ==
    IF raw_report.fields_present THEN raw_report
    ELSE [raw_report EXCEPT !.bureauScore = 0, !.npa_count = 0, !.statuses = <<>>]

(* Mutant: the contribution is not clamped to [0, 150]. *)
extract_crb_metrics_unclamped(raw_report) ==
    LET report == credit_report_of(raw_report)
        active == CountIn(report.statuses, {"ACTIVE", "DELINQUENT"})
        settled == CountIn(report.statuses, {"CLOSED", "SETTLED", "PAID"})
        pts == bureau_score_pts(report.bureauScore)
        n == npa_pts(report.npa_count)
        d == default_pts(active, settled)
    IN  [bureau_score |-> report.bureauScore,
         bureau_score_pts |-> pts,
         npa_count |-> report.npa_count,
         npa_pts |-> n,
         active_defaults |-> active,
         settled_defaults |-> settled,
         default_pts |-> d,
         crb_contribution |-> pts + 100 * n + 100 * d]

(* extract_crb_metrics: the scored fields of CrbMetrics *)
extract_crb_metrics(raw_report) ==
    LET report == credit_report_of(raw_report)
        active == CountIn(report.statuses, {"ACTIVE", "DELINQUENT"})
        settled == CountIn(report.statuses, {"CLOSED", "SETTLED", "PAID"})
        pts == bureau_score_pts(report.bureauScore)
        n == npa_pts(report.npa_count)
        d == default_pts(active, settled)
    IN  [bureau_score |-> report.bureauScore,
         bureau_score_pts |-> pts,
         npa_count |-> report.npa_count,
         npa_pts |-> n,
         active_defaults |-> active,
         settled_defaults |-> settled,
         default_pts |-> d,
         crb_contribution |-> Max(0, Min(15000, pts + 100 * n + 100 * d))]

(***************************************************************************)
(* llm/client.py.  What the provider call may do: fail in the network or   *)
(* at the provider, answer with no content, with text that is not JSON,    *)
(* with JSON that is not an object, or with an object whose "adjustment"   *)
(* is absent, null, not a number ("text") or a number.                     *)
(***************************************************************************)
FALLBACK_REASONING == <<"LLM analysis unavailable.">>

(* int() of a JSON number given in tenths: truncation towards zero *)
int_of_tenths(t) == IF t >= 0 THEN t \div 10 ELSE -((-t) \div 10)

(* the value int(data.get("adjustment", 0)) converts, line 50 *)
int_of(adjustment) ==
    CASE adjustment.tag = "absent" -> 0
      [] adjustment.tag = "int" -> adjustment.value
      [] adjustment.tag = "float" -> int_of_tenths(adjustment.value)

(* Mutant: only a JSON decoding error is caught. *)
get_score_adjustment_json_only(resp) ==
    IF resp.kind = "invalid_json"
      THEN [raised |-> FALSE, adjustment |-> 0, reasoning |-> FALLBACK_REASONING]
    ELSE IF resp.kind # "object" \/ resp.adjustment.tag \in {"null", "text"}
      THEN [raised |-> TRUE, adjustment |-> 0, reasoning |-> <<>>]
    ELSE [raised |-> FALSE,
          adjustment |-> Max(-50, Min(50, int_of(resp.adjustment))),
          reasoning |-> resp.reasoning]

(* LLMClient.get_score_adjustment, lines 38-63: every exception of the
   call (39-45), of json.loads (47), of data.get on a non-object (50) and of
   int() (50) is caught by except Exception and gives the fallback *)
get_score_adjustment(resp) ==
    IF resp.kind # "object" \/ resp.adjustment.tag \in {"null", "text"}
      THEN [raised |-> FALSE, adjustment |-> 0, reasoning |-> FALLBACK_REASONING]
      ELSE [raised |-> FALSE,
            adjustment |-> Max(-50, Min(50, int_of(resp.adjustment))),
            reasoning |-> resp.reasoning]

(***************************************************************************)
(* scoring/hybrid_scorer.py compute_hybrid_score, from the base result,    *)
(* the bureau metrics and the adjuster's answer to HybridScoreResult.      *)
(***************************************************************************)
(* lines 62-67: no report, or an empty one, contributes 0 *)
crb_contribution_of(report) ==
    IF report.present THEN extract_crb_metrics(report).crb_contribution ELSE 0

(* lines 101-135 *)
hybrid_result(base_total, crb_contribution, llm) ==
    LET intermediate == base_total + crb_contribution + 100 * llm.adjustment
    IN  With(transform(score_to_pd(intermediate)), LAMBDA pdo_result :
        [base_score |-> base_total,
         crb_contribution |-> crb_contribution,
         llm_adjustment |-> llm.adjustment,
         pd_probability |-> pdo_result.pd_probability,
         final_score |-> pdo_result.score,
         score_band |-> pdo_result.band,
         reasoning |-> llm.reasoning])

(***************************************************************************)
(* compute_hybrid_score as a process: called with a transaction list and a *)
(* bureau report, it runs to the await of the provider call (line 93) and  *)
(* resumes when get_score_adjustment returns.                              *)
(***************************************************************************)
MaxTx == 2

Tx(days_ago, month, amount, type, category, has_balance, balance_after) ==
    [days_ago |-> days_ago, month |-> month, amount |-> amount,
     transaction_type |-> type, category |-> category,
     has_balance |-> has_balance, balance_after |-> balance_after]

(* the transactions lists are drawn from *)
TxUniverse ==
    <<Tx(10, 6, 120000, "CREDIT", "SALARY", TRUE, 150000),
      Tx(40, 5, 120000, "CREDIT", "SALARY", TRUE, 140000),
      Tx(70, 4, 4000, "CREDIT", "MPESA", FALSE, 0),
      Tx(12, 6, 30000, "DEBIT", "RENT", TRUE, 90000),
      Tx(45, 5, 200000, "DEBIT", "BETTING", TRUE, -5000),
      Tx(15, 6, 2000, "DEBIT", "FOOD", TRUE, 0),
      Tx(20, 6, -10000, "DEBIT", "REVERSAL", FALSE, 0),
      Tx(400, 1, 500000, "CREDIT", "SALARY", TRUE, 500000),
      Tx(NoDate, 0, 60000, "CREDIT", "OTHER", FALSE, 0),
      Tx(25, 5, 0, "DEBIT", "FEES", FALSE, 0)>>

RECURSIVE Pick(_, _)
Pick(i, S) ==
    IF i > Len(TxUniverse) THEN <<>>
    ELSE (IF i \in S THEN <<TxUniverse[i]>> ELSE <<>>) \o Pick(i + 1, S)

(* six months of a steady salary spent in six categories *)
RichHistory ==
    [i \in 1..12 |->
        IF i <= 6 THEN Tx(30 * i - 20, 7 - i, 120000, "CREDIT", "SALARY", TRUE, 200000)
        ELSE Tx(30 * (i - 6) - 10, 13 - i, 20000, "DEBIT",
                <<"RENT", "FOOD", "TRANSPORT", "UTILITIES", "SCHOOL", "AIRTIME">>[i - 6],
                TRUE, 100000)]

TxLists ==
    {Pick(1, S) : S \in {T \in SUBSET (1..Len(TxUniverse)) : Cardinality(T) <= MaxTx}}
      \cup {RichHistory}

Report(bureauScore, npa_count, statuses) ==
    [present |-> TRUE, fields_present |-> TRUE, bureauScore |-> bureauScore,
     npa_count |-> npa_count, statuses |-> statuses]

(* crb_raw_report is None, or {} *)
NoReport ==
    [present |-> FALSE, fields_present |-> FALSE, bureauScore |-> 0, npa_count |-> 0,
     statuses |-> <<>>]

(* a report that is not empty and has none of the fields the extractor
   reads, such as {"creditReport": {}} or {"status": "error"} *)
FieldlessReport == [NoReport EXCEPT !.present = TRUE]

Reports ==
    {NoReport,
     FieldlessReport,
     Report(0, 0, <<>>),
     Report(1000, 0, <<>>),
     Report(0, 3, <<"ACTIVE">>),
     Report(650, 2, <<"settled">>),
     Report(300, 0, <<"WRITTEN_OFF">>),
     Report(800, 3, <<"DELINQUENT", "PAID">>)}

Response(kind, tag, value, reasoning) ==
    [kind |-> kind, adjustment |-> [tag |-> tag, value |-> value],
     reasoning |-> reasoning]

Failures == {"network_error", "provider_error", "no_content", "invalid_json",
             "non_object"}

Adjustments ==
    {[tag |-> "absent", value |-> 0], [tag |-> "null", value |-> 0],
     [tag |-> "text", value |-> 0]}
      \cup [tag : {"int"}, value : {-500, -50, 12, 50, 500}]
      \cup [tag : {"float"}, value : {505, -129}]

Reasonings == {<<>>, <<"Stable salary income.", "No active defaults.">>}

(* what the provider call can end in *)
LlmResponses ==
    {Response(k, "absent", 0, <<>>) : k \in Failures}
      \cup {Response("object", a.tag, a.value, r) : a \in Adjustments, r \in Reasonings}

NoLocals ==
    [base_total |-> 0, crb_contribution |-> 0, category_breakdown |-> <<>>,
     low_balance_events |-> 0, low_balance_score |-> 0, crb_metrics |-> <<>>]

NoLlmCall ==
    [called |-> FALSE, resp |-> Response("network_error", "absent", 0, <<>>),
     out |-> [raised |-> FALSE, adjustment |-> 0, reasoning |-> <<>>]]

NoResult ==
    [base_score |-> 0, crb_contribution |-> 0, llm_adjustment |-> 0,
     pd_probability |-> 0, final_score |-> 0, score_band |-> "", reasoning |-> <<>>]

(* no scoring in progress: the state of this part in the other specifications *)
ScoreIdle ==
    /\ transactions = <<>>
    /\ crb_raw_report = NoReport
    /\ provider = "responsive"
    /\ score_pc = "idle"
    /\ locals = NoLocals
    /\ llm_ret = NoLlmCall
    /\ hybrid = NoResult
    /\ today = 0

(* lines 57-93: base score, bureau contribution, prompt, the call is awaited *)
Hybrid_until_llm_call ==
    /\ score_pc = "called"
    /\ \E txs \in {transactions}, report \in {crb_raw_report} :
          \E base_result \in {calculate_base_score(txs, ANALYSIS_PERIOD_DAYS)} :
             locals' = [base_total |-> base_result.base_total,
                        crb_contribution |-> crb_contribution_of(report),
                        category_breakdown |-> base_result.category_breakdown,
                        low_balance_events |-> base_result.low_balance_events,
                        low_balance_score |-> base_result.low_balance_score,
                        crb_metrics |-> IF report.present
                                           THEN extract_crb_metrics(report) ELSE <<>>]
    /\ score_pc' = "awaiting_llm"
    /\ UNCHANGED <<regvars, pdovars, cmpvars, dbvars, transactions, crb_raw_report, provider,
                   llm_ret, hybrid, today>>

(* lines 93-135: get_score_adjustment returns (or raises), the result is built *)
Hybrid_after_llm_call ==
    /\ score_pc = "awaiting_llm"
    /\ provider = "responsive"
    /\ \E resp \in LlmResponses, base_total \in {locals.base_total},
          crb_contribution \in {locals.crb_contribution} :
          LET out == get_score_adjustment(resp)
          IN  /\ llm_ret' = [called |-> TRUE, resp |-> resp, out |-> out]
              /\ IF out.raised
                   THEN score_pc' = "raised" /\ hybrid' = hybrid
                   ELSE /\ score_pc' = "returned"
                        /\ hybrid' = hybrid_result(base_total, crb_contribution, out)
    /\ UNCHANGED <<regvars, pdovars, cmpvars, dbvars, transactions, crb_raw_report, provider,
                   locals, today>>

compute_hybrid_score ==
    \/ Hybrid_until_llm_call
    \/ Hybrid_after_llm_call

(* compute_hybrid_score is invoked again with the same arguments; the result
   of the invocation before is still held by its caller *)
Hybrid_called_again ==
    /\ score_pc = "returned"
    /\ score_pc' = "called"
    /\ locals' = NoLocals
    /\ UNCHANGED <<regvars, pdovars, cmpvars, dbvars, transactions, crb_raw_report, provider,
                   llm_ret, hybrid, today>>

(* the days on which invocations run *)
Days == {0, 30}

(* the date changes *)
advance_clock ==
    /\ \E d \in Days : d > today /\ today' = d
    /\ UNCHANGED <<regvars, pdovars, cmpvars, dbvars, transactions, crb_raw_report, provider,
                   score_pc, locals, llm_ret, hybrid>>

(***************************************************************************)
(* The scoring requests and the tables they touch: POST /credit-reports    *)
(* (api/credit_reports.py), the MCP tool calculate_credit_score            *)
(* (mcp_server.py), the weekly feedback loop (feedback/loop.py) and the    *)
(* attribution run (mlops/shap_analyzer.py).  Each request is two steps,   *)
(* up to the awaited provider call and after it.                           *)
(***************************************************************************)
MaxRequests == 2
MaxRuns == 2

RequestIds == 1..MaxRequests
NationalIds == {"N1", "N2"}
CustomerIds == 1..Cardinality(NationalIds)

(* table transactions, by customer_id: not written by any of these handlers *)
TransactionsOf(customer_id) ==
    IF customer_id = 1 THEN RichHistory
    ELSE IF customer_id = 2 THEN <<TxUniverse[3], TxUniverse[5]>>
    ELSE <<>>

PayloadReports == {Report(1000, 0, <<>>), Report(0, 3, <<"ACTIVE">>)}

ProviderAnswers ==
    {Response("network_error", "absent", 0, <<>>),
     Response("object", "int", 500, <<>>),
     Response("object", "int", 12, <<"Stable salary income.", "No active defaults.">>)}

NoRequest ==
    [route |-> "none", pc |-> "new", customer_id |-> 0, crb_report_id |-> 0,
     locals |-> NoLocals, result |-> NoResult]

(* position of x in the sequence q, 0 when absent *)
IndexOf(q, x) ==
    IF \E i \in 1..Len(q) : q[i] = x THEN CHOOSE i \in 1..Len(q) : q[i] = x ELSE 0

(* the weekly feedback loop (feedback/loop.py), thresholds in thousandths *)
PSI_THRESHOLD == 200
KS_DROP_THRESHOLD == 50

RunIds == 1..MaxRuns

(* what the loop's queries return, lines 51-57, 70-73 and 81-85: the number of
   outcome-labelled events in the window and their KS (mlops/trainer.py
   ks_statistic), the champion's stored KS (0 for none), the number of older
   events and their PSI against the window (compute_psi), in thousandths *)
Outcomes ==
    [n_results : {0, 49, 50}, current_ks : {240, 250, 320}, baseline_ks : {0, 350},
     n_base_probs : {19, 20}, psi : {150, 200, 201}]

NoOutcomes ==
    [n_results |-> 0, current_ks |-> 0, baseline_ks |-> 0, n_base_probs |-> 0,
     psi |-> 0]

NoRun == [pc |-> "idle", today |-> 0, n_results |-> 0, ks_drop |-> 0, psi_val |-> 0]

(* no loan has an outcome and the loop has not run *)
FeedbackIdle ==
    /\ psi_monitoring = <<>>
    /\ data_quality_log = <<>>
    /\ feedback_runs = [r \in RunIds |-> NoRun]
    /\ outcomes = NoOutcomes

(* mlops/shap_analyzer.py.  Attributions are in units of 10^-7. *)
TOP_K_FEATURES == 10
MaxFeatures == 3

FeatureNames == <<"avg_income", "bureau_score", "loan_count", "tenure_months">>

(* Mutant: the features in the order of all_keys. *)
ranked_unsorted(pairs) == pairs

(* sorted(pairs, key=lambda x: x[1], reverse=True), lines 107-111: by value,
   largest first, equal values in the order they came in *)
RECURSIVE ranked(_)
ranked(pairs) ==
    IF pairs = <<>> THEN <<>>
    ELSE LET front == ranked(SubSeq(pairs, 1, Len(pairs) - 1))
             x == pairs[Len(pairs)]
             k == Cardinality({i \in 1..Len(front) : front[i][2] >= x[2]})
         IN  SubSeq(front, 1, k) \o <<x>> \o SubSeq(front, k + 1, Len(front))

(* lines 107-115: zip(all_keys, mean_abs_shap) ranked, each value rounded to
   six decimals *)
feature_importances(all_keys, mean_abs_shap) ==
    LET pairs == [i \in 1..Len(all_keys) |-> <<all_keys[i], mean_abs_shap[i]>>]
        r == ranked(pairs)
    IN  [i \in 1..Len(r) |->
            [feature |-> r[i][1], mean_abs_shap |-> RoundDiv(r[i][2], 10)]]

(* line 116 *)
top_drivers(fi) ==
    [i \in 1..Min(TOP_K_FEATURES, Len(fi)) |-> fi[i].feature]

(* what the query of lines 52-68 and _compute_shap return: the number of
   records, the model version (none when the model cannot be loaded), the
   sorted feature names and np.mean(np.abs(shap_values), axis=0) *)
Defaults ==
    [n_records : {9, 10}, model_version : {NoVersion, 1},
     all_keys : {SubSeq(FeatureNames, 1, Min(MaxFeatures, Len(FeatureNames)))},
     mean_abs_shap : [1..Min(MaxFeatures, Len(FeatureNames)) -> {0, 12, 14, 30}]]

NoDefaults ==
    [n_records |-> 0, model_version |-> NoVersion, all_keys |-> <<>>,
     mean_abs_shap |-> <<>>]

NoShapResult ==
    [feature_importances |-> <<>>, n_defaults_analysed |-> -1, top_drivers |-> <<>>,
     analysis_date |-> -1]

(* no loan has defaulted and the attribution has not run *)
ShapIdle ==
    /\ shap_logs = {}
    /\ shap_result = NoShapResult
    /\ defaults = NoDefaults

(* nothing requested: the state of this part in the other specifications *)
DbIdle ==
    /\ customers = <<>>
    /\ crb_reports = <<>>
    /\ credit_score_events = <<>>
    /\ base_score_breakdowns = <<>>
    /\ FeedbackIdle
    /\ ShapIdle
    /\ requests = [r \in RequestIds |-> NoRequest]

(* ingest_credit_report, lines 63-145 with compute_hybrid_score to its line 93:
   upsert the customer, store the report, fetch the transactions, score up
   to the provider call *)
Ingest_until_llm_call(r) ==
    /\ requests[r].pc = "new"
    /\ requests[r].route = "none"
    /\ \E national_id \in NationalIds, crb_data \in PayloadReports :
          LET existing == IndexOf(customers, national_id)
              customer_id == IF existing # 0 THEN existing ELSE Len(customers) + 1
              crb_report_id == Len(crb_reports) + 1
          IN  /\ customers' = IF existing # 0 THEN customers
                              ELSE Append(customers, national_id)
              /\ crb_reports' = Append(crb_reports,
                                       [customer_id |-> customer_id,
                                        raw_report |-> crb_data])
              /\ requests' = [requests EXCEPT ![r] =
                    [route |-> "ingest", pc |-> "awaiting_llm",
                     customer_id |-> customer_id, crb_report_id |-> crb_report_id,
                     locals |-> [base_total |->
                                    calculate_base_score(TransactionsOf(customer_id),
                                                         ANALYSIS_PERIOD_DAYS).base_total,
                                 crb_contribution |-> crb_contribution_of(crb_data)],
                     result |-> NoResult]]
    /\ UNCHANGED <<regvars, pdovars, cmpvars, scorevars, credit_score_events,
                   base_score_breakdowns, fbvars, shapvars>>

(* compute_hybrid_score lines 93-135, then ingest_credit_report lines 146-205:
   the score event and its breakdown are inserted and committed *)
Ingest_after_llm_call(r) ==
    /\ requests[r].pc = "awaiting_llm"
    /\ requests[r].route = "ingest"
    /\ \E resp \in ProviderAnswers :
          LET result == hybrid_result(requests[r].locals.base_total,
                                      requests[r].locals.crb_contribution,
                                      get_score_adjustment(resp))
              event_id == Len(credit_score_events) + 1
          IN  /\ credit_score_events' = Append(credit_score_events,
                    [event_id |-> event_id,
                     customer_id |-> requests[r].customer_id,
                     base_score |-> result.base_score,
                     crb_contribution |-> result.crb_contribution,
                     llm_adjustment |-> result.llm_adjustment,
                     pd_probability |-> result.pd_probability,
                     final_score |-> result.final_score,
                     score_band |-> result.score_band,
                     crb_report_id |-> requests[r].crb_report_id])
              /\ base_score_breakdowns' = Append(base_score_breakdowns,
                    [score_event_id |-> event_id, base_total |-> result.base_score])
              /\ requests' = [requests EXCEPT ![r].pc = "completed",
                                              ![r].result = result]
    /\ UNCHANGED <<regvars, pdovars, cmpvars, scorevars, customers, crb_reports, fbvars,
                   shapvars>>

ingest_credit_report(r) ==
    \/ Ingest_until_llm_call(r)
    \/ Ingest_after_llm_call(r)

(* call_tool "calculate_credit_score", lines 95-117 with compute_hybrid_score to
   its line 93: profile, transactions and the latest stored report are read *)
Calculate_until_llm_call(r) ==
    /\ requests[r].pc = "new"
    /\ requests[r].route = "none"
    /\ \E cid \in CustomerIds :
          LET stored == {i \in 1..Len(crb_reports) : crb_reports[i].customer_id = cid}
          IN  \E crb_r \in IF stored = {} THEN {0} ELSE stored :
                 LET crb_raw == IF crb_r = 0 THEN NoReport
                                ELSE crb_reports[crb_r].raw_report
                 IN  requests' = [requests EXCEPT ![r] =
                        [route |-> "mcp", pc |-> "awaiting_llm", customer_id |-> cid,
                         crb_report_id |-> crb_r,
                         locals |-> [base_total |->
                                        calculate_base_score(TransactionsOf(cid),
                                                             ANALYSIS_PERIOD_DAYS).base_total,
                                     crb_contribution |-> crb_contribution_of(crb_raw)],
                         result |-> NoResult]]
    /\ UNCHANGED <<regvars, pdovars, cmpvars, scorevars, customers, crb_reports,
                   credit_score_events, base_score_breakdowns, fbvars, shapvars>>

(* compute_hybrid_score lines 93-135, then call_tool lines 125-135: the result
   is returned as text; nothing is written *)
Calculate_after_llm_call(r) ==
    /\ requests[r].pc = "awaiting_llm"
    /\ requests[r].route = "mcp"
    /\ \E resp \in ProviderAnswers :
          requests' = [requests EXCEPT
             ![r].pc = "completed",
             ![r].result = hybrid_result(requests[r].locals.base_total,
                                         requests[r].locals.crb_contribution,
                                         get_score_adjustment(resp))]
    /\ UNCHANGED <<regvars, pdovars, cmpvars, scorevars, customers, crb_reports,
                   credit_score_events, base_score_breakdowns, fbvars, shapvars>>

call_tool_calculate_credit_score(r) ==
    \/ Calculate_until_llm_call(r)
    \/ Calculate_after_llm_call(r)

(* run_feedback_loop, lines 47-87: the outcome-labelled score events of the
   trailing 30 days are read; with fewer than 50 the run returns.  Else the
   KS drop against the champion's stored KS (0.30 when there is none) and
   the PSI against the older events (0.0 with fewer than 20 of them) are
   computed.  The run's date is date.today(). *)
Feedback_read(r) ==
    /\ feedback_runs[r].pc = "idle"
    /\ \E run_date \in {today} :
          /\ LET baseline_ks == IF outcomes.baseline_ks # 0 THEN outcomes.baseline_ks
                                ELSE 300
                 ks_drop == baseline_ks - outcomes.current_ks
                 psi_val == IF outcomes.n_base_probs >= 20 THEN outcomes.psi ELSE 0
             IN  feedback_runs' = [feedback_runs EXCEPT ![r] =
                    IF outcomes.n_results < 50
                    THEN [pc |-> "returned", today |-> run_date,
                          n_results |-> outcomes.n_results, ks_drop |-> 0,
                          psi_val |-> 0]
                    ELSE [pc |-> "insert_psi", today |-> run_date,
                          n_results |-> outcomes.n_results, ks_drop |-> ks_drop,
                          psi_val |-> psi_val]]
    /\ UNCHANGED <<regvars, pdovars, cmpvars, scorevars, customers, crb_reports,
                   credit_score_events, base_score_breakdowns, psi_monitoring,
                   data_quality_log, outcomes, shapvars, requests>>

(* line 95 *)
should_retrain_and(ks_drop, psi_val) ==
    ks_drop > KS_DROP_THRESHOLD /\ psi_val > PSI_THRESHOLD

should_retrain(ks_drop, psi_val) ==
    ks_drop > KS_DROP_THRESHOLD \/ psi_val > PSI_THRESHOLD

(* lines 88-96 and 108-109: the drift sample is inserted and committed, then
   the thresholds are tested *)
Feedback_insert_psi(r) ==
    /\ feedback_runs[r].pc = "insert_psi"
    /\ psi_monitoring' = Append(psi_monitoring,
          [feature_name |-> "pd_probability",
           psi_value |-> feedback_runs[r].psi_val,
           sample_date |-> feedback_runs[r].today,
           alert_triggered |-> feedback_runs[r].psi_val > PSI_THRESHOLD])
    /\ feedback_runs' = [feedback_runs EXCEPT ![r].pc =
          IF should_retrain(feedback_runs[r].ks_drop, feedback_runs[r].psi_val)
          THEN "insert_trigger" ELSE "returned"]
    /\ UNCHANGED <<regvars, pdovars, cmpvars, scorevars, customers, crb_reports,
                   credit_score_events, base_score_breakdowns, data_quality_log,
                   outcomes, shapvars, requests>>

(* lines 97-107: the retraining trigger is inserted and committed *)
Feedback_insert_trigger(r) ==
    /\ feedback_runs[r].pc = "insert_trigger"
    /\ data_quality_log' = Append(data_quality_log,
          [batch_date |-> feedback_runs[r].today, table_name |-> "model_versions",
           field_name |-> "retraining_trigger", missing_count |-> 1])
    /\ feedback_runs' = [feedback_runs EXCEPT ![r].pc = "returned"]
    /\ UNCHANGED <<regvars, pdovars, cmpvars, scorevars, customers, crb_reports,
                   credit_score_events, base_score_breakdowns, psi_monitoring,
                   outcomes, shapvars, requests>>

run_feedback_loop(r) ==
    \/ Feedback_read(r)
    \/ Feedback_insert_psi(r)
    \/ Feedback_insert_trigger(r)

(* analyse_recent_defaults, lines 27-166: with fewer than 10 records, or
   without a model, the empty result is returned.  Else the features are
   ranked, the day's shap_logs row of the model version is inserted or
   overwritten (a failure of that is logged and swallowed) and the ranking
   is returned. *)
analyse_recent_defaults ==
    /\ \E persisted \in BOOLEAN :
          IF defaults.n_records < 10 \/ defaults.model_version = NoVersion
          THEN /\ shap_result' = [feature_importances |-> <<>>,
                                  n_defaults_analysed |-> defaults.n_records,
                                  top_drivers |-> <<>>,
                                  analysis_date |-> today]
               /\ shap_logs' = shap_logs
          ELSE \E fi \in {feature_importances(defaults.all_keys,
                                               defaults.mean_abs_shap)} :
                  /\ shap_result' = [feature_importances |-> fi,
                                     n_defaults_analysed |-> defaults.n_records,
                                     top_drivers |-> top_drivers(fi),
                                     analysis_date |-> today]
                  /\ shap_logs' =
                        IF persisted
                        THEN {row \in shap_logs :
                                 \/ row.model_version # defaults.model_version
                                 \/ row.analysis_date # today}
                             \cup {[model_version |-> defaults.model_version,
                                    analysis_date |-> today,
                                    feature_importances |-> fi,
                                    n_samples |-> defaults.n_records,
                                    top_drivers |-> top_drivers(fi)]}
                        ELSE shap_logs
    /\ UNCHANGED <<regvars, pdovars, cmpvars, scorevars, customers, crb_reports,
                   credit_score_events, base_score_breakdowns, fbvars, requests,
                   defaults>>

----------------------------------------------------------------------------
(* nothing compared: the state of this part in the other specifications *)
CmpIdle ==
    /\ run_metrics = [v \in Versions |-> EmptyMetrics]
    /\ cmp_ret = NoComparison

(* a registry of MaxVersion versions whose runs logged any of the metric
   values, with any holder of the champion and challenger aliases *)
CmpInit ==
    /\ nversions = MaxVersion
    /\ alias \in {al \in [Aliases -> Versions \cup {NoVersion}] :
                     al[ALIAS_STAGING] = NoVersion}
    /\ retired = {}
    /\ pc = "idle"
    /\ challenger_mv = NoVersion
    /\ champion_mv = NoVersion
    /\ promote_ret = NoVersion
    /\ champion_read = NoVersion
    /\ scorer_alias = [a \in Aliases |-> NoVersion]
    /\ scorer_model = Unbuilt
    /\ predict_ret = NoPrediction
    /\ run_metrics \in [Versions -> RunMetrics]
    /\ cmp_ret = NoComparison
    /\ ScoreIdle
    /\ DbIdle
    /\ PdoIdle

CmpNext == compare_champion_challenger

(* a call with any transaction list and report, to a provider that answers
   or stays silent *)
ScoreInit ==
    /\ nversions = 0
    /\ alias = [a \in Aliases |-> NoVersion]
    /\ retired = {}
    /\ pc = "idle"
    /\ challenger_mv = NoVersion
    /\ champion_mv = NoVersion
    /\ promote_ret = NoVersion
    /\ champion_read = NoVersion
    /\ scorer_alias = [a \in Aliases |-> NoVersion]
    /\ scorer_model = Unbuilt
    /\ predict_ret = NoPrediction
    /\ run_metrics = [v \in Versions |-> EmptyMetrics]
    /\ cmp_ret = NoComparison
    /\ transactions \in TxLists
    /\ crb_raw_report \in Reports
    /\ provider \in {"responsive", "silent"}
    /\ score_pc = "called"
    /\ locals = NoLocals
    /\ llm_ret = NoLlmCall
    /\ hybrid = NoResult
    /\ today = 0
    /\ DbIdle
    /\ PdoIdle

ScoreNext == compute_hybrid_score

(* repeated calls with one of three transaction lists and any report, on
   the same day or a later one *)
RescoreInit ==
    /\ ScoreInit
    /\ transactions \in {RichHistory, <<TxUniverse[2], TxUniverse[5]>>, <<TxUniverse[1]>>}

RescoreNext ==
    \/ compute_hybrid_score
    \/ Hybrid_called_again
    \/ advance_clock

IngestInit ==
    /\ nversions = 0
    /\ alias = [a \in Aliases |-> NoVersion]
    /\ retired = {}
    /\ pc = "idle"
    /\ challenger_mv = NoVersion
    /\ champion_mv = NoVersion
    /\ promote_ret = NoVersion
    /\ champion_read = NoVersion
    /\ scorer_alias = [a \in Aliases |-> NoVersion]
    /\ scorer_model = Unbuilt
    /\ predict_ret = NoPrediction
    /\ CmpIdle
    /\ ScoreIdle
    /\ DbIdle
    /\ PdoIdle

IngestNext ==
    \/ \E r \in RequestIds : ingest_credit_report(r)
    \/ \E r \in RequestIds : call_tool_calculate_credit_score(r)
    \/ analyse_recent_defaults

(* the loop's runs over any database content *)
FeedbackInit ==
    /\ nversions = 0
    /\ alias = [a \in Aliases |-> NoVersion]
    /\ retired = {}
    /\ pc = "idle"
    /\ challenger_mv = NoVersion
    /\ champion_mv = NoVersion
    /\ promote_ret = NoVersion
    /\ champion_read = NoVersion
    /\ scorer_alias = [a \in Aliases |-> NoVersion]
    /\ scorer_model = Unbuilt
    /\ predict_ret = NoPrediction
    /\ CmpIdle
    /\ ScoreIdle
    /\ customers = <<>>
    /\ crb_reports = <<>>
    /\ credit_score_events = <<>>
    /\ base_score_breakdowns = <<>>
    /\ psi_monitoring = <<>>
    /\ data_quality_log = <<>>
    /\ feedback_runs = [r \in RunIds |-> NoRun]
    /\ outcomes \in Outcomes
    /\ ShapIdle
    /\ requests = [r \in RequestIds |-> NoRequest]
    /\ PdoIdle

(* start_scheduler, lines 112-118: the cron job invokes run_feedback_loop *)
FeedbackNext ==
    \/ \E r \in RunIds : run_feedback_loop(r)
    \/ advance_clock

(* a PD and the PD of twice its odds *)
PdoInit ==
    /\ nversions = 0
    /\ alias = [a \in Aliases |-> NoVersion]
    /\ retired = {}
    /\ pc = "idle"
    /\ challenger_mv = NoVersion
    /\ champion_mv = NoVersion
    /\ promote_ret = NoVersion
    /\ champion_read = NoVersion
    /\ scorer_alias = [a \in Aliases |-> NoVersion]
    /\ scorer_model = Unbuilt
    /\ predict_ret = NoPrediction
    /\ CmpIdle
    /\ ScoreIdle
    /\ DbIdle
    /\ intermediates = <<>>
    /\ \E pd \in PdGrid : pd_inputs = <<pd, DoubleOdds(pd)>>
    /\ pdo_results = <<NoPdoResult, NoPdoResult>>
    /\ recovered_pds = <<NoPd, NoPd>>

PdoNext ==
    \/ \E i \in 1..2 : Pdo_transform(i)
    \/ \E i \in 1..2 : Pdo_pd_from_score(i)

(* two intermediate scores, the first below the second *)
CalibrateInit ==
    /\ nversions = 0
    /\ alias = [a \in Aliases |-> NoVersion]
    /\ retired = {}
    /\ pc = "idle"
    /\ challenger_mv = NoVersion
    /\ champion_mv = NoVersion
    /\ promote_ret = NoVersion
    /\ champion_read = NoVersion
    /\ scorer_alias = [a \in Aliases |-> NoVersion]
    /\ scorer_model = Unbuilt
    /\ predict_ret = NoPrediction
    /\ CmpIdle
    /\ ScoreIdle
    /\ DbIdle
    /\ \E a \in IntermediateGrid, b \in IntermediateGrid :
          a < b /\ intermediates = <<a, b>>
    /\ pd_inputs = <<NoPd, NoPd>>
    /\ pdo_results = <<NoPdoResult, NoPdoResult>>
    /\ recovered_pds = <<NoPd, NoPd>>

CalibrateNext == \E i \in 1..2 : Calibrate(i)

(* the attribution run over any sample of defaults *)
ShapInit ==
    /\ nversions = 0
    /\ alias = [a \in Aliases |-> NoVersion]
    /\ retired = {}
    /\ pc = "idle"
    /\ challenger_mv = NoVersion
    /\ champion_mv = NoVersion
    /\ promote_ret = NoVersion
    /\ champion_read = NoVersion
    /\ scorer_alias = [a \in Aliases |-> NoVersion]
    /\ scorer_model = Unbuilt
    /\ predict_ret = NoPrediction
    /\ CmpIdle
    /\ ScoreIdle
    /\ PdoIdle
    /\ customers = <<>>
    /\ crb_reports = <<>>
    /\ credit_score_events = <<>>
    /\ base_score_breakdowns = <<>>
    /\ FeedbackIdle
    /\ shap_logs = {}
    /\ shap_result = NoShapResult
    /\ defaults \in Defaults
    /\ requests = [r \in RequestIds |-> NoRequest]

ShapNext ==
    \/ analyse_recent_defaults
    \/ advance_clock

(* the tracking server when the service starts: nothing seeded, and a
   registry of REGISTERED_MODEL that is empty or holds one version made
   champion through MLflow itself (mlflow_client.py sets the champion alias
   only in a promotion, which needs a champion to be there) *)
RegInit ==
    /\ \/ /\ nversions = 0
          /\ alias = [a \in Aliases |-> NoVersion]
       \/ /\ nversions = 1
          /\ alias = [a \in Aliases |-> IF a = ALIAS_CHAMPION THEN 1 ELSE NoVersion]
    /\ retired = {}
    /\ pc = "idle"
    /\ challenger_mv = NoVersion
    /\ champion_mv = NoVersion
    /\ promote_ret = NoVersion
    /\ champion_read = NoVersion
    /\ scorer_alias = [a \in Aliases |-> NoVersion]
    /\ scorer_model = Unbuilt
    /\ predict_ret = NoPrediction
    /\ CmpIdle
    /\ ScoreIdle
    /\ DbIdle
    /\ PdoIdle

promote_challenger_to_champion ==
    \/ Promote_get_challenger
    \/ Promote_get_champion
    \/ Promote_delete_champion_alias
    \/ Promote_tag_retired
    \/ Promote_set_champion_alias
    \/ Promote_delete_challenger_alias
    \/ Promote_raises

(* the registry's clients: registration, seeding, alias moves, promotion *)
RegistryOps ==
    \/ register_model
    \/ seed_mlflow
    \/ \E v \in Registered : promote_to_staging(v)
    \/ \E v \in Registered : promote_to_challenger(v)
    \/ promote_challenger_to_champion

RegNext ==
    \/ RegistryOps
    \/ get_champion_version

ScorerNext ==
    \/ RegistryOps
    \/ get_lgbm_scorer
    \/ reload
    \/ scorer_predict_pd

Init == RegInit

Next == RegNext

(* the registry, its promotion workflow and a reader of the champion *)
Spec == Init /\ [][Next]_vars

(* the registry, its promotion workflow and the cached champion scorer *)
SpecScorer == RegInit /\ [][ScorerNext]_vars

(* compare_champion_challenger over registry states and logged metrics *)
SpecCompare == CmpInit /\ [][CmpNext]_vars

(* one call of compute_hybrid_score *)
SpecScore == ScoreInit /\ [][ScoreNext]_vars

(* scoring requests over the service's tables *)
SpecIngest == IngestInit /\ [][IngestNext]_vars

(* one call of compute_hybrid_score, the service's own steps being taken when
   they can be *)
SpecScoreFair == SpecScore /\ WF_vars(ScoreNext)

(* the PDO transformer applied to PDs and its inverse to the scores *)
SpecPdo == PdoInit /\ [][PdoNext]_vars

(* the feedback loop's runs *)
SpecFeedback == FeedbackInit /\ [][FeedbackNext]_vars

(* the attribution run, day after day *)
SpecShap == ShapInit /\ [][ShapNext]_vars

(* the calibration of two intermediate scores *)
SpecCalibrate == CalibrateInit /\ [][CalibrateNext]_vars

(* compute_hybrid_score invoked repeatedly as the days pass *)
SpecRescore == RescoreInit /\ [][RescoreNext]_vars

----------------------------------------------------------------------------
(***************************************************************************)
(* Claims about the promotion workflow and the scorer.                     *)
(***************************************************************************)
promovars == <<pc, challenger_mv, champion_mv, promote_ret>>

(* C1: while promote_challenger_to_champion runs, having found a champion,
   every get_champion_version of a concurrent reader returns a version: the
   champion alias is never seen mapping to no version.  (That no two
   versions hold one alias is built into the alias map.)  The code deletes
   the alias at line 110 and sets it again only at line 114. *)
C1_ReaderNeverSeesGap ==
    [][(get_champion_version /\ pc \in PromotionSteps /\ champion_mv # NoVersion)
          => champion_read' # NoVersion]_vars

(* C2: a promotion called with champion A (champion_mv) and challenger B
   (challenger_mv) that returns a version leaves champion -> B, challenger
   -> no version, A tagged retired, and returns B. *)
C2_PromotionPostcondition ==
    [][(pc = "delete_challenger" /\ pc' = "returned" /\ promote_ret' # NoVersion)
          => /\ alias'[ALIAS_CHAMPION] = challenger_mv
             /\ alias'[ALIAS_CHALLENGER] = NoVersion
             /\ champion_mv \in retired'
             /\ promote_ret' = challenger_mv]_vars

(* a promotion of B over a different champion A has returned B *)
C2_Witness ==
    /\ pc = "returned"
    /\ promote_ret # NoVersion
    /\ promote_ret = challenger_mv
    /\ champion_mv # challenger_mv
    /\ alias[ALIAS_CHAMPION] = challenger_mv
    /\ champion_mv \in retired

(* C3: called when no version holds the challenger alias, the promotion
   returns None and changes no alias and no retired tag. *)
C3_NoChallengerIsNoOp ==
    [][(pc \in {"idle", "returned"} /\ alias[ALIAS_CHALLENGER] = NoVersion
           /\ promovars' # promovars)
          => /\ pc' = "returned"
             /\ promote_ret' = NoVersion
             /\ alias' = alias
             /\ retired' = retired]_vars

(* a promotion was called with a champion and no challenger, and returned None *)
C3_Witness ==
    /\ pc = "returned"
    /\ promote_ret = NoVersion
    /\ challenger_mv = NoVersion
    /\ alias[ALIAS_CHALLENGER] = NoVersion
    /\ alias[ALIAS_CHAMPION] # NoVersion
    /\ retired # {}

(* C9: predict_pd never raises; it returns None when no model is loaded or
   the inference throws, and the predicted probability otherwise. *)
C9_PredictNeverRaises ==
    predict_ret.called =>
        /\ ~predict_ret.out.raised
        /\ (predict_ret.model = NoVersion \/ predict_ret.inf.throws)
              => predict_ret.out.none
        /\ (predict_ret.model # NoVersion /\ ~predict_ret.inf.throws)
              => (~predict_ret.out.none /\ predict_ret.out.pd = predict_ret.inf.pd)

(* the inference threw on a loaded model and predict_pd returned None *)
C9_Witness ==
    /\ predict_ret.called
    /\ predict_ret.model # NoVersion
    /\ predict_ret.inf.throws
    /\ predict_ret.out.none
    /\ ~predict_ret.out.raised

(* C4: the recommendation is promote_challenger if ks_improvement >= 0.02 or
   auc_improvement >= 0.005, otherwise rollback_challenger if ks_improvement
   <= -0.03 or auc_improvement <= -0.01, otherwise keep_champion; the promote
   branch wins when both a promote and a rollback condition hold. *)
C4_RecommendationTable ==
    cmp_ret.called =>
        LET k == cmp_ret.ks_improvement
            a == cmp_ret.auc_improvement
        IN  /\ (k >= 20 \/ a >= 5) => cmp_ret.recommendation = "promote_challenger"
            /\ (~(k >= 20 \/ a >= 5) /\ (k <= -30 \/ a <= -10))
                  => cmp_ret.recommendation = "rollback_challenger"
            /\ (~(k >= 20 \/ a >= 5) /\ ~(k <= -30 \/ a <= -10))
                  => cmp_ret.recommendation = "keep_champion"

(* a comparison where KS improved by exactly 0.02 and AUC fell by 0.01:
   both branches apply, and promote_challenger was recommended *)
C4_Witness ==
    /\ cmp_ret.called
    /\ cmp_ret.ks_improvement = 20
    /\ cmp_ret.auc_improvement <= -10
    /\ cmp_ret.recommendation = "promote_challenger"

(* C5: when the champion or the challenger alias maps to no version, the
   comparison recommends keep_champion.  With a champion and no challenger
   the code takes the challenger's metrics as -1 and recommends
   rollback_challenger. *)
C5_MissingAliasKeepsChampion ==
    (cmp_ret.called /\ (alias[ALIAS_CHAMPION] = NoVersion
                          \/ alias[ALIAS_CHALLENGER] = NoVersion))
        => cmp_ret.recommendation = "keep_champion"

(***************************************************************************)
(* Claims about the hybrid score and the qualitative adjuster.             *)
(***************************************************************************)
(* C6: whatever the transaction list, the bureau report (present or absent)
   and the provider's response or failure, the result of compute_hybrid_score
   has final_score in [300, 850], base_score in [300, 700], crb_contribution
   in [0, 150], llm_adjustment in [-50, 50] and 0 < pd_probability < 1. *)
C6_HybridRanges ==
    score_pc = "returned" =>
        /\ hybrid.final_score >= 300 /\ hybrid.final_score <= 850
        /\ hybrid.base_score >= 30000 /\ hybrid.base_score <= 70000
        /\ hybrid.crb_contribution >= 0 /\ hybrid.crb_contribution <= 15000
        /\ hybrid.llm_adjustment >= -50 /\ hybrid.llm_adjustment <= 50
        /\ hybrid.pd_probability > 0 /\ hybrid.pd_probability < Micro

(* a report whose points sum below zero and an answer of -500: both clamped *)
C6_Witness ==
    /\ score_pc = "returned"
    /\ crb_raw_report = Report(0, 3, <<"ACTIVE">>)
    /\ llm_ret.resp.adjustment = [tag |-> "int", value |-> -500]
    /\ hybrid.crb_contribution = 0
    /\ hybrid.llm_adjustment = -50
    /\ hybrid.final_score < 400

(* C7: get_score_adjustment never raises; when the call fails (network
   error, provider error, no content, content that is not JSON or not a JSON
   object, an adjustment that int() rejects) it returns adjustment 0 and
   exactly the one fallback reasoning string. *)
C7_AdjusterNeverRaises ==
    llm_ret.called =>
        /\ ~llm_ret.out.raised
        /\ (llm_ret.resp.kind \in Failures
              \/ llm_ret.resp.adjustment.tag \in {"null", "text"})
             => /\ llm_ret.out.adjustment = 0
                /\ Len(llm_ret.out.reasoning) = 1
                /\ llm_ret.out.reasoning = FALLBACK_REASONING

(* the provider answered a JSON object whose adjustment is not a number *)
C7_Witness ==
    /\ llm_ret.called
    /\ llm_ret.resp.kind = "object"
    /\ llm_ret.resp.adjustment.tag = "text"
    /\ Len(llm_ret.resp.reasoning) = 2
    /\ ~llm_ret.out.raised
    /\ llm_ret.out.adjustment = 0
    /\ llm_ret.out.reasoning = FALLBACK_REASONING
    /\ score_pc = "returned"
    /\ hybrid.llm_adjustment = 0

(* C8: the adjuster call is bounded by a timeout: a compute_hybrid_score
   awaiting the provider eventually returns, also when the provider never
   responds.  The code passes no timeout to the call at lines 39-45 and
   awaits it unguarded at line 93 of hybrid_scorer.py. *)
C8_AwaitingEventuallyReturns ==
    (score_pc = "awaiting_llm") ~> (score_pc = "returned")

(* C10: score events are append-only and one per scoring request: no step
   of a request, of the feedback loop or of the attribution run changes or
   removes an existing score event, and a request that completes appends
   exactly one.  The MCP tool calculate_credit_score returns its score
   without inserting an event. *)
C10_OneEventPerRequestAppendOnly ==
    [][/\ Len(credit_score_events') >= Len(credit_score_events)
       /\ \A i \in 1..Len(credit_score_events) :
             credit_score_events'[i] = credit_score_events[i]
       /\ \A r \in RequestIds :
             (requests[r].pc # "completed" /\ requests'[r].pc = "completed")
                => Len(credit_score_events') = Len(credit_score_events) + 1]_vars

(* C11: a run of the feedback loop inserts a retraining trigger exactly when
   it read at least 50 outcome-labelled events and the KS drop or the PSI is
   above its threshold; a run that read fewer than 50 returns at once and
   inserts nothing; no trigger is inserted except by a run that returns *)
C11_TriggerIffEnoughAndDrift ==
    [][ /\ \A r \in RunIds :
             (feedback_runs[r].pc # "returned" /\ feedback_runs'[r].pc = "returned") =>
                LET run == feedback_runs'[r]
                    drift == \/ run.ks_drop > KS_DROP_THRESHOLD
                             \/ run.psi_val > PSI_THRESHOLD
                IN  /\ (Len(data_quality_log') = Len(data_quality_log) + 1)
                          <=> (run.n_results >= 50 /\ drift)
                    /\ run.n_results < 50 =>
                          /\ feedback_runs[r].pc = "idle"
                          /\ UNCHANGED <<psi_monitoring, data_quality_log>>
        /\ data_quality_log' # data_quality_log =>
              /\ \E r \in RunIds : /\ feedback_runs[r].pc # "returned"
                                   /\ feedback_runs'[r].pc = "returned"
              /\ data_quality_log'[Len(data_quality_log')].field_name
                     = "retraining_trigger"
      ]_vars

(* a run that read 50 events and a PSI above the threshold alone has returned
   and its trigger is stored; the KS did not drop *)
C11_Witness ==
    \E r \in RunIds :
       /\ feedback_runs[r].pc = "returned"
       /\ feedback_runs[r].n_results = 50
       /\ feedback_runs[r].psi_val > PSI_THRESHOLD
       /\ feedback_runs[r].ks_drop <= KS_DROP_THRESHOLD
       /\ Len(data_quality_log) = 1

(* C12: for every run date the stored state holds at most one drift sample of
   the monitored metric pd_probability and at most one retraining trigger,
   however many runs of the feedback loop that date saw *)
C12_OneSamplePerRunDate ==
    \A d \in Days :
       /\ Cardinality({i \in 1..Len(psi_monitoring) :
                          /\ psi_monitoring[i].sample_date = d
                          /\ psi_monitoring[i].feature_name = "pd_probability"}) <= 1
       /\ Cardinality({i \in 1..Len(data_quality_log) :
                          /\ data_quality_log[i].batch_date = d
                          /\ data_quality_log[i].field_name = "retraining_trigger"}) <= 1

(* C13: every version holds at most one of the aliases staging, challenger
   and champion *)
C13_AtMostOneAliasPerVersion ==
    \A v \in Versions : Cardinality({a \in Aliases : alias[a] = v}) <= 1

(* C14: a version tagged retired holds no alias, and the champion is not a
   retired version *)
C14_RetiredHoldsNoAlias ==
    /\ \A v \in retired : \A a \in Aliases : alias[a] # v
    /\ alias[ALIAS_CHAMPION] \notin retired

(* C15: in a populated registry a version gains the challenger alias only in
   a step it enters holding staging, and gains the champion alias only in a
   step it enters holding challenger *)
C15_AliasesGainedInOrder ==
    [][nversions # 0 =>
         \A v \in Versions :
            /\ (alias[ALIAS_CHALLENGER] # v /\ alias'[ALIAS_CHALLENGER] = v)
                  => alias[ALIAS_STAGING] = v
            /\ (alias[ALIAS_CHAMPION] # v /\ alias'[ALIAS_CHAMPION] = v)
                  => alias[ALIAS_CHALLENGER] = v
      ]_vars

(* C16: when the odds of the second PD are twice those of the first and
   neither raw score is outside 300..850, the first score exceeds the
   second by pdo, within 3 points *)
C16_DoublingOddsDropsPdo ==
    LET raw(i) == RawScore6(Max(100, Min(999900, pd_inputs[i])))
        inside(i) == 300 * Micro <= raw(i) /\ raw(i) <= 850 * Micro
    IN  (/\ Len(pd_inputs) = 2
         /\ pdo_results[1] # NoPdoResult /\ pdo_results[2] # NoPdoResult
         /\ inside(1) /\ inside(2))
        => Abs((pdo_results[1].score - pdo_results[2].score) - PDO) <= 3

(* the repository's test: PD 0.5 scored 500 and PD 2/3 scored 450 *)
C16_Witness ==
    /\ pd_inputs = <<500000, 666667>>
    /\ pdo_results[1].score = 500
    /\ pdo_results[2].score = 450

(* C17 as stated: for every PD in (0, 1) the inverse of its score is within
   0.05 of it *)
C17_RoundTripEverywhere ==
    \A i \in 1..Len(pd_inputs) :
       recovered_pds[i] # NoPd => Abs(recovered_pds[i] - pd_inputs[i]) < 50000

(* C17 amended: for every PD whose raw score is not outside 300..850 the
   inverse of its score is within 0.05 of it *)
C17_RoundTripInsideClamp ==
    \A i \in 1..Len(pd_inputs) :
       LET raw == RawScore6(Max(100, Min(999900, pd_inputs[i])))
       IN  (recovered_pds[i] # NoPd /\ 300 * Micro <= raw /\ raw <= 850 * Micro)
              => Abs(recovered_pds[i] - pd_inputs[i]) < 50000

(* the repository's test: PD 0.25 is scored and recovered *)
C17_Witness ==
    /\ pd_inputs # <<>>
    /\ pd_inputs[1] = 250000
    /\ pdo_results[1].score \in 301..849
    /\ recovered_pds[1] # NoPd

(* C18: an invocation of compute_hybrid_score that is given the transactions,
   report and window of the invocation before it, and the same adjuster
   response, returns the result the one before returned, whatever the day *)
C18_SameInputsSameResult ==
    [][(/\ score_pc = "awaiting_llm" /\ score_pc' = "returned"
        /\ hybrid # NoResult
        /\ llm_ret'.resp = llm_ret.resp)
       => hybrid' = hybrid]_vars

(* C19: when the analysis window holds at least one debit, the percentages
   of category_breakdown add up to 100 within 1 (here in tenths) *)
C19_BreakdownSumsTo100 ==
    (/\ score_pc \in {"awaiting_llm", "returned", "raised"}
     /\ OfType(tx_window(transactions, ANALYSIS_PERIOD_DAYS), "DEBIT") # <<>>)
    => Abs(SumOver(locals.category_breakdown, DOMAIN locals.category_breakdown)
             - 1000) <= 10

(* C20 as stated: in the feature_importances returned by
   analyse_recent_defaults each entry's mean_abs_shap is strictly greater
   than that of the entry after it *)
C20_StrictlyDescending ==
    \A i \in 1..(Len(shap_result.feature_importances) - 1) :
       shap_result.feature_importances[i].mean_abs_shap
          > shap_result.feature_importances[i + 1].mean_abs_shap

(* C20 amended: each entry's mean_abs_shap is greater than or equal to that
   of the entry after it *)
C20_Descending ==
    \A i \in 1..(Len(shap_result.feature_importances) - 1) :
       shap_result.feature_importances[i].mean_abs_shap
          >= shap_result.feature_importances[i + 1].mean_abs_shap

(* a ranking was returned whose first feature is not the first of all_keys *)
C20_Witness ==
    /\ Len(shap_result.feature_importances) >= 3
    /\ shap_result.feature_importances[1].feature # defaults.all_keys[1]
    /\ shap_result.feature_importances[1].mean_abs_shap
          > shap_result.feature_importances[3].mean_abs_shap

(* C21: a report whose fields are all absent is told apart from a report
   whose fields are present and zero or empty: its metrics differ from
   those of the zero report, and the call ends in a validation error
   instead of going on to the adjuster *)
C21_AbsentFieldsDistinguished ==
    (/\ crb_raw_report = FieldlessReport
     /\ score_pc # "called")
    => /\ locals.crb_metrics # extract_crb_metrics(Report(0, 0, <<>>))
       /\ score_pc \notin {"awaiting_llm", "returned"}

(* C22: the default-history points of a scored report are -30 when an
   account with a default is active or delinquent, however many are
   settled; 0 when some are closed, settled or paid and none is active;
   +20 when none is active and none is settled *)
C22_DefaultPoints ==
    (score_pc # "called" /\ crb_raw_report.present) =>
       LET statuses == credit_report_of(crb_raw_report).statuses
           active == {i \in 1..Len(statuses) :
                         upper(statuses[i]) \in {"ACTIVE", "DELINQUENT"}}
           settled == {i \in 1..Len(statuses) :
                          upper(statuses[i]) \in {"CLOSED", "SETTLED", "PAID"}}
           pts == locals.crb_metrics.default_pts
       IN  /\ active # {} => pts = -30
           /\ (active = {} /\ settled # {}) => pts = 0
           /\ (active = {} /\ settled = {}) => pts = 20
           /\ pts \in {-30, 0, 20}

(* the report with a delinquent and a paid account was scored -30 *)
C22_Witness ==
    /\ score_pc = "awaiting_llm"
    /\ crb_raw_report = Report(800, 3, <<"DELINQUENT", "PAID">>)
    /\ locals.crb_metrics.default_pts = -30
    /\ locals.crb_metrics.settled_defaults = 1

(* C23: ks_improvement is the challenger's KS minus the champion's and
   auc_improvement the challenger's AUC minus the champion's, KS and AUC
   being the values train_and_register logged for each run.  The
   comparison reads the AUC under "roc_auc" while training logs it under
   "auc_roc", so the AUC difference of two trained models is always 0. *)
C23_ImprovementsAreLoggedDifferences ==
    (/\ cmp_ret.called
     /\ cmp_ret.champion.version # NoVersion
     /\ cmp_ret.challenger.version # NoVersion
     /\ \A v \in {cmp_ret.champion.version, cmp_ret.challenger.version} :
           run_metrics[v].ks_statistic # Missing /\ run_metrics[v].auc_roc # Missing)
    => /\ cmp_ret.ks_improvement =
             run_metrics[cmp_ret.challenger.version].ks_statistic
               - run_metrics[cmp_ret.champion.version].ks_statistic
       /\ cmp_ret.auc_improvement =
             run_metrics[cmp_ret.challenger.version].auc_roc
               - run_metrics[cmp_ret.champion.version].auc_roc

(* C24: of two intermediate scores the higher one gets a PD that is not
   higher and a final score that is not lower *)
C24_CalibrationMonotone ==
    (/\ Len(intermediates) = 2
     /\ pdo_results[1] # NoPdoResult /\ pdo_results[2] # NoPdoResult
     /\ intermediates[1] < intermediates[2])
    => /\ pd_inputs[2] <= pd_inputs[1]
       /\ pdo_results[2].pd_probability <= pdo_results[1].pd_probability
       /\ pdo_results[2].score >= pdo_results[1].score

(* the intermediate scores 500 and 700 were calibrated: PD 0.5 and score
   500 for the first, a lower PD and the score 673 for the second *)
C24_Witness ==
    /\ intermediates = <<50000, 70000>>
    /\ pdo_results[1].pd_probability = 500000
    /\ pdo_results[1].score = 500
    /\ pdo_results[2].pd_probability < 500000
    /\ pdo_results[2].score = 673

(* C25: the band of a final score in 300..850 is Excellent from 780, Very
   Good from 720, Good from 680, Fair from 640, Marginal from 600 and Poor
   below; of two scores the higher one never gets the worse band *)
C25_BandTable ==
    LET rank(band) == CASE band = "Excellent" -> 5
                        [] band = "Very Good" -> 4
                        [] band = "Good" -> 3
                        [] band = "Fair" -> 2
                        [] band = "Marginal" -> 1
                        [] band = "Poor" -> 0
                        [] OTHER -> -1
        done == {i \in 1..Len(pdo_results) : pdo_results[i] # NoPdoResult}
    IN  /\ \A i \in done :
             LET score == pdo_results[i].score
                 band == pdo_results[i].band
             IN  /\ score \in 300..850
                 /\ band = "Excellent" <=> score >= 780
                 /\ band = "Very Good" <=> (score >= 720 /\ score < 780)
                 /\ band = "Good" <=> (score >= 680 /\ score < 720)
                 /\ band = "Fair" <=> (score >= 640 /\ score < 680)
                 /\ band = "Marginal" <=> (score >= 600 /\ score < 640)
                 /\ band = "Poor" <=> score < 600
       /\ \A i, j \in done :
             pdo_results[i].score <= pdo_results[j].score
                => rank(pdo_results[i].band) <= rank(pdo_results[j].band)

(* a score of 779 was banded Very Good and a score of 780 Excellent *)
C25_Witness ==
    /\ intermediates = <<82250, 82300>>
    /\ pdo_results[1].score = 779 /\ pdo_results[1].band = "Very Good"
    /\ pdo_results[2].score = 780 /\ pdo_results[2].band = "Excellent"

(* C26: low_balance_events is the number of transactions of the window whose
   balance after the transaction is below 10% of the average monthly
   income, also when that income is zero, and low_balance_score is 150 for
   no event, 100 for one, 50 for two or three and 10 for more.  Where the
   window has no income the code compares with 0.10 instead of 0, so a
   balance of 0 is counted. *)
C26_LowBalanceEvents ==
    score_pc # "called" =>
       LET w == tx_window(transactions, ANALYSIS_PERIOD_DAYS)
           credits == OfType(w, "CREDIT")
           n_months == Max(1, Cardinality(DOMAIN Monthly(credits)))
           total_credits == SeqSum(Amounts(credits))
           below == {i \in 1..Len(w) :
                       /\ w[i].has_balance
                       /\ w[i].balance_after * 10 * n_months < total_credits}
           events == locals.low_balance_events
       IN  /\ events = Cardinality(below)
           /\ locals.low_balance_score =
                 (CASE events = 0 -> 150
                    [] events = 1 -> 100
                    [] events \in {2, 3} -> 50
                    [] OTHER -> 10)

(* C27: the cached champion scorer keeps the model it loaded while a
   promotion runs and succeeds, and a reload() after a successful promotion
   makes it serve the version that now holds the champion alias of the
   promoted registered model.  The scorer loads from the registered model
   MODEL_NAME and the promotion acts on REGISTERED_MODEL. *)
C27_ReloadServesPromotedChampion ==
    [][/\ (scorer_model # Unbuilt /\ ~reload) => scorer_model' = scorer_model
       /\ (reload /\ pc = "returned" /\ promote_ret # NoVersion)
          => <<MODEL_NAME, scorer_model'>> = <<REGISTERED_MODEL, alias[ALIAS_CHAMPION]>>
      ]_vars

(* C28: with a version holding the challenger alias the promotion succeeds
   and makes it champion, also when no version holds the champion alias:
   the lookup of the champion does not end the promotion.  Line 102 raises
   when there is no champion and the promotion returns None, so no workflow
   that starts from an empty registry ever gets a champion. *)
C28_PromotionWithoutChampion ==
    [][(/\ pc = "get_champion" /\ pc' # pc
        /\ alias[ALIAS_CHALLENGER] # NoVersion
        /\ alias[ALIAS_CHAMPION] = NoVersion)
       => pc' = "delete_champion"
      ]_vars

(* C29: a promotion that returns None, whichever of its registry calls
   raised, leaves the champion alias on the version that held it when the
   promotion read it (line 102): a failed promotion never leaves the
   registry without a champion.  The except branch undoes nothing: a call
   that raises after line 110 leaves no champion, and one that raises at
   line 115 leaves the challenger as champion. *)
C29_FailedPromotionChangesNothing ==
    [][(/\ pc \in PromotionSteps \ {"get_champion"}
        /\ pc' = "returned" /\ promote_ret' = NoVersion)
       => /\ alias'[ALIAS_CHAMPION] = champion_mv
          /\ alias'[ALIAS_CHAMPION] # NoVersion
      ]_vars

(* C30: a promote_to_challenger(v) that runs while a promotion is under way
   is not lost: when the promotion clears the challenger alias (line 115)
   and returns, the version losing that alias is the version that became
   champion.  The promotion reads the challenger once (line 101) and
   deletes the alias by name, so a challenger set in between is dropped. *)
C30_ConcurrentChallengerNotLost ==
    [][(pc = "delete_challenger" /\ pc' = "returned" /\ promote_ret' # NoVersion)
       => /\ alias[ALIAS_CHALLENGER] = challenger_mv
          /\ alias'[ALIAS_CHAMPION] = alias[ALIAS_CHALLENGER]
      ]_vars

====
